---- MODULE Spec2Model ----
(***************************************************************************)
(* Model of soa::vector<T, Allocator> (src/soa_vector.hpp): one allocation *)
(* per container, partitioned into one segment per field of T, with the    *)
(* element lifetimes (placement new / explicit destructor calls) and the   *)
(* allocator's buffers made explicit.                                      *)
(*                                                                         *)
(* C++ indices are kept 0-based: segment slots are functions over          *)
(* 0..capacity-1.  Fields are numbered 1..NumFields (C++ field I is field  *)
(* I+1 here).                                                              *)
(***************************************************************************)
EXTENDS Integers, Sequences, FiniteSets, TLC

\* ---------------------------------------------------------------- bounds
\* Spec: one container under every operation on a single container.
\* Largest capacity it is driven to, and the number of buffers the allocator hands
\* out in one run (the address of a freed buffer is handed out again).
MaxCap == 3
MaxBufs == 2
\* SpecGrow: one container under insertions and removals only.
MaxCapGrow == 4
MaxBufsGrow == 3
\* SpecPair: two container objects with construction, destruction, copy and move.
MaxCapPair == 2
MaxBufsPair == 2
\* SpecView: one container with shrink_to_fit, its field views, its proxies and
\* an allocator that may fail.
MaxCapView == 2
MaxBufsView == 2
\* SpecLayout: the layout computation alone, for field lists of up to
\* MaxFieldsLayout fields and capacities up to MaxCapLayout.
MaxCapFail == 3
MaxBufsFail == 3
MaxCapIter == 3
MaxBufsIter == 2
MaxCapSelf == 2
MaxBufsSelf == 2
MaxFieldsLayout == 3
MaxCapLayout == 3

\* ------------------------------------------------------- the record type
\* The record type of the header's usage example: person { name; age }.
NumFields == 2
Fields == 1..NumFields
\* sizeof / alignof of the two fields (std::string, int on an LP64 ABI).
FieldSize == <<32, 4>>
FieldAlign == <<8, 4>>

\* Field values: 0 is the value-initialised value of a field, f another value of
\* field f (the fields' values differ, so that a mix-up of fields shows).
FieldValues(f) == {0, f}
Values == UNION {FieldValues(f) : f \in Fields}
\* A record value is one value per field.
Records == {r \in [Fields -> Values] : \A f \in Fields : r[f] \in FieldValues(f)}
DefaultRecord == [f \in Fields |-> 0]
\* The record with no value-initialised field.
FullRecord == [f \in Fields |-> f]

\* Storage returned by the allocator and not (or no longer) holding an object.
Raw == -1
\* An object that is still constructed but has been moved from.
MovedFrom == -2


VARIABLES
    vec,    \* vec[v]: the fields of container object v (and whether it exists)
    heap,   \* heap[b]: the allocator's buffer b and the objects living in it
    ref,    \* ref[v]: the reference sequence of whole records run beside v
    last,   \* the operation that produced this state and the branch it took
    lim     \* the bounds of this run (never changes)

vars == <<vec, heap, ref, last, lim>>

\* The container objects and the allocator's buffers of the run.
Vecs == DOMAIN vec
Bufs == DOMAIN heap
CapLimit == lim.cap

\* ---------------------------------------------------------------- layout
\* (x + align) & ~align for align = 2^k - 1: x + align with its low k bits cleared.
AndNot(x, align) == x - (x % (align + 1))

\* An update_shift that masks without adding align first (rounds down): C15 has to
\* tell it from vector::update_shift.
RECURSIVE update_shift_rounding_down(_, _, _, _, _, _)
update_shift_rounding_down(sizes, aligns, tuple, I, nb, shift) ==
    IF I = Len(tuple) - 1
    THEN [tuple EXCEPT ![I + 1] = shift + nb * sizes[I]]
    ELSE LET align == aligns[I + 1] - 1
             s == shift + AndNot(nb * sizes[I], align)
         IN  update_shift_rounding_down(sizes, aligns, [tuple EXCEPT ![I + 1] = s],
                                        I + 1, nb, s)

\* vector::update_shift<I>: fills tuple[I..arity] (0-based; tuple[I+1..] here).
RECURSIVE update_shift(_, _, _, _, _, _)
update_shift(sizes, aligns, tuple, I, nb, shift) ==
    IF I = Len(tuple) - 1
    THEN [tuple EXCEPT ![I + 1] = shift + nb * sizes[I]]
    ELSE LET align == aligns[I + 1] - 1
             s == shift + AndNot(nb * sizes[I] + align, align)
         IN  update_shift(sizes, aligns, [tuple EXCEPT ![I + 1] = s], I + 1, nb, s)

\* The shift tuple vector::allocate computes: arity + 1 ints, all 0 before update_shift<1>.
Shifts(sizes, aligns, nb) ==
    update_shift(sizes, aligns, [k \in 1..(Len(sizes) + 1) |-> 0], 1, nb, 0)

\* ------------------------------------------------------------ the objects
NullSpan == [buf |-> 0, off |-> 0]
\* members<T>{}: every vector_span value-initialised.
ZeroMembers == [f \in Fields |-> NullSpan]

NoVector == [alive |-> FALSE, size |-> 0, capacity |-> 0, nb_bytes |-> 0,
             base |-> ZeroMembers]

UnusedBuf == [st |-> "unused", bytes |-> 0, slots |-> [f \in Fields |-> <<>>]]

\* The program state the member functions below transform: the container objects
\* and the allocator's buffers.
Cur == [vec |-> vec, heap |-> heap]

\* span[i] for the span `p` of field f.
Load(h, p, f, i) == h[p.buf].slots[f][i]

\* Rewrites, for every field f, the slots of the segment that base[f] points to:
\* slot i holding x becomes F(f, i, x).
MapSlots(h, base, F(_, _, _)) ==
    [b \in DOMAIN h |->
        [h[b] EXCEPT !.slots =
            [f \in Fields |->
                [i \in DOMAIN h[b].slots[f] |->
                    IF base[f].buf = b THEN F(f, i, h[b].slots[f][i])
                    ELSE h[b].slots[f][i]]]]]

\* ------------------------------------------------------------- allocator
CanAlloc(h) == \E b \in DOMAIN h : h[b].st = "unused"
FreshBuf(h) == CHOOSE b \in DOMAIN h :
                   h[b].st = "unused" /\ \A c \in DOMAIN h : h[c].st = "unused" => b <= c

\* vector::create_members: one span per field at ptr + shift[field].
create_members(ptr, shift) == [f \in Fields |-> [buf |-> ptr, off |-> shift[f]]]

\* vector::allocate: lays out nb elements, takes nb_bytes raw bytes from the allocator.
allocate(M, nb) ==
    LET shift == Shifts(FieldSize, FieldAlign, nb)
        nb_bytes == shift[NumFields + 1]
        ptr == FreshBuf(M.heap)
    IN  [M |-> [M EXCEPT !.heap[ptr] =
                    [st |-> "live", bytes |-> nb_bytes,
                     slots |-> [f \in Fields |-> [i \in 0..(nb - 1) |-> Raw]]]],
         new_members |-> create_members(ptr, shift),
         nb_bytes |-> nb_bytes]

\* vector::deallocate: no-op for capacity 0, else hands span 0's start back.
deallocate(M, v) ==
    IF M.vec[v].capacity = 0 THEN M
    ELSE [M EXCEPT !.heap[M.vec[v].base[1].buf] = UnusedBuf]

\* ------------------------------------------------------ element lifetimes
\* A destroy(begin, end) that starts one element early: C10 has to tell it from
\* vector::destroy(begin, end).
destroy_range_from_before(M, v, begin, end) ==
    IF begin >= end THEN M
    ELSE [M EXCEPT !.heap = MapSlots(M.heap, M.vec[v].base,
              LAMBDA f, i, x : IF begin - 1 <= i /\ i < end THEN Raw ELSE x)]

\* vector::destroy(begin, end): runs the destructor of slots [begin, end) of every field.
destroy_range(M, v, begin, end) ==
    IF begin >= end THEN M
    ELSE [M EXCEPT !.heap = MapSlots(M.heap, M.vec[v].base,
              LAMBDA f, i, x : IF begin <= i /\ i < end THEN Raw ELSE x)]

\* A destroy() that stops one element short: C13 has to tell it from
\* vector::destroy().
destroy_all_but_last(M, v) ==
    IF M.vec[v].size <= 0 THEN M
    ELSE [M EXCEPT !.heap = MapSlots(M.heap, M.vec[v].base,
              LAMBDA f, i, x : IF i < M.vec[v].size - 1 THEN Raw ELSE x)]

\* vector::destroy(): every span iterated from begin() to end() = begin() + size().
destroy(M, v) ==
    IF M.vec[v].size <= 0 THEN M
    ELSE [M EXCEPT !.heap = MapSlots(M.heap, M.vec[v].base,
              LAMBDA f, i, x : IF i < M.vec[v].size THEN Raw ELSE x)]

\* A construct_copy_array that copies src[0] into every dst[i]: C2 has to tell it
\* from vector::construct_copy_array.
construct_copy_array_of_first(h, src, dst, nb) ==
    IF nb <= 0 THEN h
    ELSE MapSlots(h, dst, LAMBDA f, i, x : IF i < nb THEN Load(h, src[f], f, 0) ELSE x)

\* vector::construct_copy_array: dst[i] copy-constructed from src[i], i < nb, per field.
construct_copy_array(h, src, dst, nb) ==
    IF nb <= 0 THEN h
    ELSE MapSlots(h, dst, LAMBDA f, i, x : IF i < nb THEN Load(h, src[f], f, i) ELSE x)

\* A construct_move_array that stops one element short: C8 has to tell it from
\* vector::construct_move_array.
construct_move_array_short(h, src, dst, nb) ==
    IF nb <= 0 THEN h
    ELSE LET moved == MapSlots(h, dst,
                         LAMBDA f, i, x : IF i < nb - 1 THEN Load(h, src[f], f, i) ELSE x)
         IN  MapSlots(moved, src, LAMBDA f, i, x : IF i < nb - 1 THEN MovedFrom ELSE x)

\* vector::construct_move_array: dst[i] move-constructed from src[i], i < nb, per field;
\* the source objects stay constructed, in their moved-from state.
construct_move_array(h, src, dst, nb) ==
    IF nb <= 0 THEN h
    ELSE LET moved == MapSlots(h, dst,
                         LAMBDA f, i, x : IF i < nb THEN Load(h, src[f], f, i) ELSE x)
         IN  MapSlots(moved, src, LAMBDA f, i, x : IF i < nb THEN MovedFrom ELSE x)

\* vector::to_zero: the fields of an empty vector.
to_zero(M, v) ==
    [M EXCEPT !.vec[v] = [alive |-> TRUE, size |-> 0, capacity |-> 0, nb_bytes |-> 0,
                          base |-> ZeroMembers]]

\* ------------------------------------------------ size & capacity modifiers
\* A clear that also gives the buffer back: C31 has to tell it from vector::clear.
clear_releasing(M, v) == to_zero(deallocate(destroy(M, v), v), v)

\* vector::clear
clear(M, v) ==
    LET M1 == destroy(M, v)
    IN  [M1 EXCEPT !.vec[v].size = 0]

\* A reserve that adopts the new buffer without its byte count: C30 has to tell it
\* from vector::reserve.
reserve_keeping_nb_bytes(M, v, capacity) ==
    IF capacity <= M.vec[v].capacity THEN M
    ELSE LET a == allocate(M, capacity)
             h == construct_move_array(a.M.heap, M.vec[v].base, a.new_members,
                                       M.vec[v].size)
         IN  [vec |-> [M.vec EXCEPT ![v].base = a.new_members,
                                    ![v].capacity = capacity],
              heap |-> h]

\* vector::reserve
reserve(M, v, capacity) ==
    IF capacity <= M.vec[v].capacity THEN M
    ELSE LET a == allocate(M, capacity)
             h == construct_move_array(a.M.heap, M.vec[v].base, a.new_members,
                                       M.vec[v].size)
         IN  [vec |-> [M.vec EXCEPT ![v].base = a.new_members,
                                    ![v].nb_bytes = a.nb_bytes,
                                    ![v].capacity = capacity],
              heap |-> h]

\* vector::reserve when allocate throws: past the capacity test, the call to allocate
\* is the first statement, and the exception leaves reserve before any other runs.
reserve_bad_alloc(M, v, capacity) == M

\* A resize that value-initialises the new elements whatever value it is given: C9
\* has to tell it from vector::resize(int, T const&).
resize_fill_ignoring_value(M, v, size, value) ==
    IF size <= M.vec[v].size
    THEN LET M1 == destroy_range(M, v, size, M.vec[v].size)
         IN  [M1 EXCEPT !.vec[v].size = size]
    ELSE LET M1 == reserve(M, v, size)
             h == MapSlots(M1.heap, M1.vec[v].base,
                      LAMBDA f, i, x :
                          IF M1.vec[v].size <= i /\ i < size THEN 0 ELSE x)
         IN  [vec |-> [M1.vec EXCEPT ![v].size = size], heap |-> h]

\* The two resize overloads differ in the constructor run on slots [size(), size):
\* type() for resize(size), type(val) for resize(size, value).
resize_fill(M, v, size, value) ==
    IF size <= M.vec[v].size
    THEN LET M1 == destroy_range(M, v, size, M.vec[v].size)
         IN  [M1 EXCEPT !.vec[v].size = size]
    ELSE LET M1 == reserve(M, v, size)
             h == MapSlots(M1.heap, M1.vec[v].base,
                      LAMBDA f, i, x :
                          IF M1.vec[v].size <= i /\ i < size THEN value[f] ELSE x)
         IN  [vec |-> [M1.vec EXCEPT ![v].size = size], heap |-> h]

\* A resize that stores the new size before it reserves: C19 has to tell it from
\* vector::resize, which has stored nothing when reserve throws.
resize_fill_size_first(M, v, size, value) ==
    reserve_bad_alloc([M EXCEPT !.vec[v].size = size], v, size)

\* Both resize overloads when allocate throws: on the growth path reserve(size) is the
\* first statement, and its exception leaves resize.
resize_fill_bad_alloc(M, v, size, value) == reserve_bad_alloc(M, v, size)

\* vector::resize(int)
resize(M, v, size) == resize_fill(M, v, size, DefaultRecord)

\* vector::resize(int, T const&)
resize_value(M, v, size, value) == resize_fill(M, v, size, value)

\* The call `reallocate(size())` in vector::shrink_to_fit: no function of that name
\* is declared in the class or anywhere else in the header, so the statement has
\* nothing to run and no build of it changes the container.
reallocate(M, v, capacity) == M

\* vector::shrink_to_fit
shrink_to_fit(M, v) ==
    IF M.vec[v].size = M.vec[v].capacity THEN M
    ELSE reallocate(M, v, M.vec[v].size)

\* ------------------------------------------------ add and remove an element
\* An emplace_back_impl that constructs the fields it has an argument for and leaves
\* the others raw: C20 has to tell it from vector::emplace_back_impl.
emplace_back_impl_given_only(M, v, components) ==
    [M EXCEPT !.heap = MapSlots(M.heap, M.vec[v].base,
        LAMBDA f, i, x :
            IF i = M.vec[v].size /\ f <= Len(components) THEN components[f] ELSE x)]

\* An emplace_back_impl that hands the arguments to the fields in reverse order: C25
\* has to tell it from vector::emplace_back_impl.
emplace_back_impl_reversed(M, v, components) ==
    [M EXCEPT !.heap = MapSlots(M.heap, M.vec[v].base,
        LAMBDA f, i, x :
            IF i = M.vec[v].size
            THEN (IF f <= Len(components) THEN components[Len(components) + 1 - f] ELSE 0)
            ELSE x)]

\* vector::emplace_back_impl<0>: field I constructed from the I-th argument while
\* arguments remain, value-initialised afterwards.
emplace_back_impl(M, v, components) ==
    [M EXCEPT !.heap = MapSlots(M.heap, M.vec[v].base,
        LAMBDA f, i, x :
            IF i = M.vec[v].size
            THEN (IF f <= Len(components) THEN components[f] ELSE 0)
            ELSE x)]

\* Growth by one element instead of doubling: C7 has to tell it from the capacity
\* vector::emplace_back computes.
new_capacity_plus_one(M, v) == M.vec[v].capacity + 1

\* The capacity emplace_back grows to when size() == capacity().
new_capacity(M, v) == IF M.vec[v].size = 0 THEN 1 ELSE M.vec[v].capacity * 2

\* vector::emplace_back
emplace_back(M, v, components) ==
    LET M1 == IF M.vec[v].size = M.vec[v].capacity
              THEN reserve(M, v, new_capacity(M, v))
              ELSE M
        M2 == emplace_back_impl(M1, v, components)
    IN  [M2 EXCEPT !.vec[v].size = @ + 1]

\* vector::emplace_back when allocate throws: the exception of reserve(new_capacity)
\* leaves emplace_back before emplace_back_impl and ++size_.
emplace_back_bad_alloc(M, v, components) == reserve_bad_alloc(M, v, new_capacity(M, v))

\* vector::push_back when allocate throws.
push_back_bad_alloc(M, v, value) ==
    emplace_back_bad_alloc(M, v, [f \in 1..NumFields |-> value[f]])

\* An emplace_back_impl that undoes the fields it constructed when a later one
\* throws: C22 has to tell it from vector::emplace_back_impl, which has no handler.
emplace_back_impl_rolled_back(M, v, components, thrower) == M

\* vector::emplace_back_impl<0> when the constructor of field `thrower` throws: the
\* fields before it have been constructed, in declaration order, and the exception
\* leaves the recursion before the later ones.
emplace_back_impl_ctor_throws(M, v, components, thrower) ==
    [M EXCEPT !.heap = MapSlots(M.heap, M.vec[v].base,
        LAMBDA f, i, x :
            IF i = M.vec[v].size /\ f < thrower
            THEN (IF f <= Len(components) THEN components[f] ELSE 0)
            ELSE x)]

\* vector::emplace_back when a field constructor throws: the growth, if any, is done,
\* and ++size_ is not reached.
emplace_back_ctor_throws(M, v, components, thrower) ==
    LET M1 == IF M.vec[v].size = M.vec[v].capacity
              THEN reserve(M, v, new_capacity(M, v))
              ELSE M
    IN  emplace_back_impl_ctor_throws(M1, v, components, thrower)

\* vector::push_back (both overloads) -> push_back_copy / push_back_move:
\* emplace_back with every field of the value, in declaration order.
push_back(M, v, value) == emplace_back(M, v, [f \in 1..NumFields |-> value[f]])

\* A pop_back that decrements size() and destroys nothing: C12 has to tell it from
\* vector::pop_back.
pop_back_without_destroy(M, v) == [M EXCEPT !.vec[v].size = @ - 1]

\* A pop_back that destroys the last element and keeps size(): C1 has to tell it
\* from vector::pop_back.
pop_back_keeping_size(M, v) ==
    [M EXCEPT !.heap = MapSlots(M.heap, M.vec[v].base,
        LAMBDA f, i, x : IF i = M.vec[v].size - 1 THEN Raw ELSE x)]

\* vector::pop_back
pop_back(M, v) ==
    LET M1 == [M EXCEPT !.vec[v].size = @ - 1]
    IN  [M1 EXCEPT !.heap = MapSlots(M1.heap, M1.vec[v].base,
            LAMBDA f, i, x : IF i = M1.vec[v].size THEN Raw ELSE x)]

\* ------------------------------------------- constructors and assignments
\* vector::vector(Allocator)
default_construct(M, v) == to_zero(M, v)

\* vector::vector(vector&&)
move_construct(M, v, rhs) ==
    LET M1 == [M EXCEPT !.vec[v] = [alive |-> TRUE,
                                    size |-> M.vec[rhs].size,
                                    base |-> M.vec[rhs].base,
                                    capacity |-> M.vec[rhs].capacity,
                                    nb_bytes |-> M.vec[rhs].nb_bytes]]
    IN  to_zero(M1, rhs)

\* A copy constructor that keeps the source's pointers instead of allocating: C6 has
\* to tell it from vector::vector(vector const&).
copy_construct_sharing(M, v, rhs) ==
    [M EXCEPT !.vec[v] = [alive |-> TRUE,
                          size |-> M.vec[rhs].size,
                          base |-> M.vec[rhs].base,
                          capacity |-> M.vec[rhs].size,
                          nb_bytes |-> M.vec[rhs].nb_bytes]]

\* vector::vector(vector const&)
copy_construct(M, v, rhs) ==
    LET M1 == [M EXCEPT !.vec[v] = [alive |-> TRUE,
                                    size |-> M.vec[rhs].size,
                                    base |-> M.vec[rhs].base,
                                    capacity |-> M.vec[rhs].size,
                                    nb_bytes |-> M.vec[rhs].nb_bytes]]
    IN  IF M.vec[rhs].size = 0 THEN M1
        ELSE LET a == allocate(M1, M1.vec[v].size)
                 h == construct_copy_array(a.M.heap, M1.vec[rhs].base, a.new_members,
                                           M1.vec[v].size)
             IN  [vec |-> [M1.vec EXCEPT ![v].base = a.new_members,
                                         ![v].nb_bytes = a.nb_bytes],
                  heap |-> h]

\* A move assignment that leaves the source as it was: C5 has to tell it from
\* vector::operator=(vector&&).
move_assign_keeping_source(M, v, rhs) ==
    LET M1 == deallocate(destroy(M, v), v)
    IN  [M1 EXCEPT !.vec[v].size = M1.vec[rhs].size,
                   !.vec[v].base = M1.vec[rhs].base,
                   !.vec[v].capacity = M1.vec[rhs].capacity,
                   !.vec[v].nb_bytes = M1.vec[rhs].nb_bytes]

\* vector::operator=(vector&&)
move_assign(M, v, rhs) ==
    LET M1 == deallocate(destroy(M, v), v)
        M2 == [M1 EXCEPT !.vec[v].size = M1.vec[rhs].size,
                         !.vec[v].base = M1.vec[rhs].base,
                         !.vec[v].capacity = M1.vec[rhs].capacity,
                         !.vec[v].nb_bytes = M1.vec[rhs].nb_bytes]
    IN  to_zero(M2, rhs)

\* A copy assignment that takes a new buffer whenever the capacity is not the source's
\* size: C28 has to tell it from vector::operator=(vector const&).
copy_assign_exact_fit(M, v, rhs) ==
    LET M1 == destroy(M, v)
        M2 == [M1 EXCEPT !.vec[v].size = M1.vec[rhs].size]
        M3 == IF M2.vec[v].capacity # M2.vec[v].size
              THEN LET M4 == deallocate(M2, v)
                       a == allocate(M4, M4.vec[v].size)
                   IN  [a.M EXCEPT !.vec[v].base = a.new_members,
                                   !.vec[v].nb_bytes = a.nb_bytes,
                                   !.vec[v].capacity = M4.vec[v].size]
              ELSE M2
    IN  [M3 EXCEPT !.heap = construct_copy_array(M3.heap, M3.vec[rhs].base,
                                                 M3.vec[v].base, M3.vec[v].size)]

\* vector::operator=(vector const&)
copy_assign(M, v, rhs) ==
    LET M1 == destroy(M, v)
        M2 == [M1 EXCEPT !.vec[v].size = M1.vec[rhs].size]
        M3 == IF M2.vec[v].capacity < M2.vec[v].size
              THEN LET M4 == deallocate(M2, v)
                       a == allocate(M4, M4.vec[v].size)
                   IN  [a.M EXCEPT !.vec[v].base = a.new_members,
                                   !.vec[v].nb_bytes = a.nb_bytes,
                                   !.vec[v].capacity = M4.vec[v].size]
              ELSE M2
    IN  [M3 EXCEPT !.heap = construct_copy_array(M3.heap, M3.vec[rhs].base,
                                                 M3.vec[v].base, M3.vec[v].size)]

\* vector::operator=(vector const&) when allocate throws: the statements run before
\* the call to allocator_traits::allocate, and nothing after it.
copy_assign_bad_alloc(M, v, rhs) ==
    LET M1 == destroy(M, v)
        M2 == [M1 EXCEPT !.vec[v].size = M1.vec[rhs].size]
    IN  deallocate(M2, v)

\* The indices i < size() at which vector::operator=(vector const&) with rhs = *this
\* copy-constructs from an element that destroy() has already destroyed: source and
\* destination are the same slots, and no reallocation happens (capacity >= size).
self_copy_from_destroyed(M, v) ==
    LET M1 == destroy(M, v)
    IN  {i \in 0..(M1.vec[v].size - 1) :
            \E f \in Fields : Load(M1.heap, M1.vec[v].base[f], f, i) = Raw}

\* vector::operator=(vector const&) with rhs = *this.  Copy-constructing from a
\* destroyed object is undefined: each such copy yields some value of the field's
\* type, garbage[i + 1][f] here.
copy_assign_self(M, v, garbage) ==
    LET N == copy_assign(M, v, v)
    IN  [N EXCEPT !.heap = MapSlots(N.heap, N.vec[v].base,
            LAMBDA f, i, x :
                IF i < N.vec[v].size /\ x = Raw THEN garbage[i + 1][f] ELSE x)]

\* vector::~vector; the object's storage is gone afterwards.
destruct(M, v) ==
    LET M1 == deallocate(destroy(M, v), v)
    IN  [M1 EXCEPT !.vec[v] = NoVector]

\* ----------------------------------------------------------------- access
\* vector::check_at: TRUE when it throws std::out_of_range.
check_at(M, v, i) == i >= M.vec[v].size

\* The vector object as the words it is made of: the members<T> sub-object (one
\* vector_span, a single pointer, per field), then size_ of members_with_size, then
\* capacity_ and nb_bytes_ of vector.
ObjectWords(M, v) ==
    [w \in 0..(NumFields + 2) |->
        IF w < NumFields
        THEN M.vec[v].base[w + 1].buf * (2 ^ 16) + M.vec[v].base[w + 1].off
        ELSE IF w = NumFields THEN M.vec[v].size
        ELSE IF w = NumFields + 1 THEN M.vec[v].capacity
        ELSE M.vec[v].nb_bytes]

\* A Pos that counts the fields from one: C26 has to tell it from the template
\* argument SOA_PP_MEMBER gives each span.
PosFromOne(f) == f

\* The template argument Pos of the span of field f: SOA_PP_MAP numbers the members
\* from 0.
Pos(f) == f - 1

\* members_with_size<Aggregate>::size_ read through a pointer to a members<Aggregate>
\* that sits at word mem_ptr of object v: size_ follows the NumFields spans.
members_size(M, v, mem_ptr) ==
    IF mem_ptr + NumFields \in DOMAIN ObjectWords(M, v)
    THEN ObjectWords(M, v)[mem_ptr + NumFields]
    ELSE -1

\* vector_span::size: `this` is the span of field f inside object v, at word f - 1;
\* this - Pos is taken for the members<Aggregate> of the owner, whose size_ is read.
\* Nothing is stored in the span but ptr_.
span_size(M, v, f) == members_size(M, v, (f - 1) - Pos(f))

\* vector_span::check_at: TRUE when it throws std::out_of_range.
span_check_at(M, v, f, i) == i >= span_size(M, v, f)

\* An assignment through the proxy that also writes the elements after index i: C24
\* has to tell it from ref_proxy::operator=.
proxy_assign_from_index_on(M, v, i, value) ==
    [M EXCEPT !.heap = MapSlots(M.heap, M.vec[v].base,
        LAMBDA f, k, x : IF i <= k /\ k < M.vec[v].size THEN value[f] ELSE x)]

\* proxy_iterator::make_proxy + ref_proxy::operator=: every field of element i
\* assigned from the same field of the record.
proxy_assign(M, v, i, value) ==
    [M EXCEPT !.heap = MapSlots(M.heap, M.vec[v].base,
        LAMBDA f, k, x : IF k = i THEN value[f] ELSE x)]

\* A conversion that lists the proxy's references in reverse order: C16 has to tell
\* it from ref_proxy::operator T().
proxy_value_reversed(M, v, i) ==
    [f \in Fields |->
        Load(M.heap, M.vec[v].base[NumFields + 1 - f], NumFields + 1 - f, i)]

\* proxy_iterator::make_proxy + ref_proxy::operator T(): the record made of the
\* proxy's references, one per field in declaration order, each span[index].
proxy_value(M, v, i) ==
    [f \in Fields |-> Load(M.heap, M.vec[v].base[f], f, i)]

\* ---------------------------------------------------------------- iterators
\* proxy_iterator: a pointer to the vector and an index.
\* vector::begin
begin(M, v) == [vec |-> v, index |-> 0]

\* An end() taken at capacity(): C27 has to tell it from vector::end.
end_at_capacity(M, v) == [vec |-> v, index |-> M.vec[v].capacity]

\* vector::end
end(M, v) == [vec |-> v, index |-> M.vec[v].size]

\* proxy_iterator::operator*: make_proxy, read as the record it refers to.
deref(M, it) == proxy_value(M, it.vec, it.index)

\* proxy_iterator::operator== and operator!=
it_eq(a, b) == a.index = b.index
it_ne(a, b) == ~it_eq(a, b)

\* proxy_iterator::operator<, >, <=, >=
it_lt(a, b) == a.index < b.index
it_gt(a, b) == it_lt(b, a)
it_le(a, b) == ~it_lt(b, a)
it_ge(a, b) == ~it_lt(a, b)

\* proxy_iterator::operator++ (prefix), operator+(int), operator-(proxy_iterator)
it_inc(a) == [a EXCEPT !.index = @ + 1]
it_plus(a, shift) == [a EXCEPT !.index = @ + shift]
it_minus(a, b) == a.index - b.index

\* for (auto it = first; it != last; ++it) visit(it.index_, *it): the visits in order.
RECURSIVE for_each(_, _, _)
for_each(M, first, lastIt) ==
    IF ~it_ne(first, lastIt) THEN <<>>
    ELSE <<[index |-> first.index, value |-> deref(M, first)]>>
             \o for_each(M, it_inc(first), lastIt)

\* The values the span of field f yields from begin() to end().
SpanValues(M, v, f) ==
    [k \in 1..M.vec[v].size |-> Load(M.heap, M.vec[v].base[f], f, k - 1)]

\* ------------------------------------------------------------ the actions
Alive(v) == vec[v].alive

Commit(M) == vec' = M.vec /\ heap' = M.heap /\ lim' = lim

\* The label of a step: the operation, the branch it took (or its outcome) and, for
\* at, the index asked for.
Op(op, res) == [op |-> op, res |-> res, arg |-> 0]

\* Argument lists of emplace_back: the first k fields of a record, 0 <= k <= NumFields.
Prefixes(records) == {[f \in 1..k |-> r[f]] : r \in records, k \in 0..NumFields}

\* The record emplace_back(components...) appends.
Emplaced(components) ==
    [f \in Fields |-> IF f <= Len(components) THEN components[f] ELSE 0]

\* A default-constructed container object.
EmptyVector == to_zero([vec |-> <<NoVector>>], 1).vec[1]

InitWith(objects, cap, bufs, records, components) ==
    /\ vec = [v \in objects |-> IF v = 1 THEN EmptyVector ELSE NoVector]
    /\ heap = [b \in 1..bufs |-> UnusedBuf]
    /\ ref = [v \in objects |-> <<>>]
    /\ last = Op("construct", "")
    /\ lim = [cap |-> cap, records |-> records, components |-> components]

Init == InitWith({1}, MaxCap, MaxBufs, {DefaultRecord, FullRecord}, {<<>>, <<1>>, <<1, 2>>})

InitGrow == InitWith({1}, MaxCapGrow, MaxBufsGrow, Records, Prefixes(Records))

InitPair == InitWith({1, 2}, MaxCapPair, MaxBufsPair, {FullRecord}, {<<>>, <<1, 2>>})

InitFail == InitWith({1, 2}, MaxCapFail, MaxBufsFail, {FullRecord}, {<<1, 2>>})

InitIter == InitWith({1}, MaxCapIter, MaxBufsIter, {FullRecord}, {<<>>, <<1, 2>>})

InitSelf == InitWith({1}, MaxCapSelf, MaxBufsSelf, {FullRecord}, {<<>>, <<1, 2>>})

InitView == InitWith({1}, MaxCapView, MaxBufsView, {FullRecord}, {<<>>, <<1, 2>>})

\* <<sizeof, alignof>> of the field types of the test records on an LP64 ABI: bool,
\* int / float, std::unique_ptr<int>, std::string.
LayoutTypes == {<<1, 1>>, <<4, 4>>, <<8, 8>>, <<32, 8>>}

\* The ordered field lists of 1 to n fields.
FieldLists(n) == UNION {[1..k -> LayoutTypes] : k \in 1..n}

\* The layout computation for one record type: the run's field list is any list of
\* up to MaxFieldsLayout fields; no container is involved.
InitLayout ==
    /\ vec = <<EmptyVector>>
    /\ heap = <<>>
    /\ ref = <<<<>>>>
    /\ last = Op("construct", "")
    /\ \E types \in FieldLists(MaxFieldsLayout) :
           lim = [cap |-> MaxCapLayout,
                  sizes |-> [k \in DOMAIN types |-> types[k][1]],
                  aligns |-> [k \in DOMAIN types |-> types[k][2]]]

Construct(v) ==
    /\ ~Alive(v)
    /\ Commit(default_construct(Cur, v))
    /\ ref' = [ref EXCEPT ![v] = <<>>]
    /\ last' = Op("construct", "")

MoveConstruct(v, rhs) ==
    /\ ~Alive(v) /\ Alive(rhs)
    /\ Commit(move_construct(Cur, v, rhs))
    /\ ref' = [ref EXCEPT ![v] = ref[rhs], ![rhs] = <<>>]
    /\ last' = Op("move_construct", "")

CopyConstruct(v, rhs) ==
    /\ ~Alive(v) /\ Alive(rhs)
    /\ vec[rhs].size > 0 => CanAlloc(heap)
    /\ Commit(copy_construct(Cur, v, rhs))
    /\ ref' = [ref EXCEPT ![v] = ref[rhs]]
    /\ last' = Op("copy_construct", IF vec[rhs].size > 0 THEN "alloc" ELSE "empty")

MoveAssign(v, rhs) ==
    /\ Alive(v) /\ Alive(rhs) /\ v # rhs
    /\ Commit(move_assign(Cur, v, rhs))
    /\ ref' = [ref EXCEPT ![v] = ref[rhs], ![rhs] = <<>>]
    /\ last' = Op("move_assign", "")

CopyAssign(v, rhs) ==
    /\ Alive(v) /\ Alive(rhs) /\ v # rhs
    /\ vec[v].capacity < vec[rhs].size => CanAlloc(heap)
    /\ Commit(copy_assign(Cur, v, rhs))
    /\ ref' = [ref EXCEPT ![v] = ref[rhs]]
    /\ last' = Op("copy_assign",
                  IF vec[v].capacity < vec[rhs].size THEN "realloc" ELSE "reuse")

\* A copy assignment that has to allocate and whose allocation fails; the exception
\* leaves operator= and reaches the caller.
CopyAssignFails(v, rhs) ==
    /\ Alive(v) /\ Alive(rhs) /\ v # rhs
    /\ vec[v].capacity < vec[rhs].size
    /\ Commit(copy_assign_bad_alloc(Cur, v, rhs))
    /\ ref' = [ref EXCEPT ![v] = <<>>]
    /\ last' = Op("copy_assign", "bad_alloc")

\* v = v: the copy assignment has no test for self-assignment.
SelfCopyAssign(v) ==
    /\ Alive(v)
    /\ \E garbage \in [1..vec[v].size -> Records] :
           /\ Commit(copy_assign_self(Cur, v, garbage))
           /\ ref' = [ref EXCEPT ![v] = garbage]
    /\ last' = [Op("copy_assign", "self")
                   EXCEPT !.arg = Cardinality(self_copy_from_destroyed(Cur, v))]

Destruct(v) ==
    /\ Alive(v)
    /\ Commit(destruct(Cur, v))
    /\ ref' = [ref EXCEPT ![v] = <<>>]
    /\ last' = Op("destruct", IF vec[v].capacity > 0 THEN "deallocate" ELSE "empty")

Clear(v) ==
    /\ Alive(v)
    /\ Commit(clear(Cur, v))
    /\ ref' = [ref EXCEPT ![v] = <<>>]
    /\ last' = Op("clear", IF vec[v].size > 0 THEN "destroyed" ELSE "empty")

Reserve(v, n) ==
    /\ Alive(v)
    /\ n > vec[v].capacity => CanAlloc(heap)
    /\ Commit(reserve(Cur, v, n))
    /\ ref' = ref
    /\ last' = Op("reserve", IF n > vec[v].capacity THEN "grow" ELSE "noop")

Resize(v, n) ==
    /\ Alive(v)
    /\ n > vec[v].capacity => CanAlloc(heap)
    /\ Commit(resize(Cur, v, n))
    /\ ref' = [ref EXCEPT ![v] =
                 [k \in 1..n |-> IF k <= Len(ref[v]) THEN ref[v][k] ELSE DefaultRecord]]
    /\ last' = Op("resize", IF n > vec[v].size THEN "grow" ELSE "shrink")

ResizeValue(v, n, value) ==
    /\ Alive(v)
    /\ n > vec[v].capacity => CanAlloc(heap)
    /\ Commit(resize_value(Cur, v, n, value))
    /\ ref' = [ref EXCEPT ![v] =
                 [k \in 1..n |-> IF k <= Len(ref[v]) THEN ref[v][k] ELSE value]]
    /\ last' = Op("resize_value", IF n > vec[v].size THEN "grow" ELSE "shrink")

\* Growth is driven no further than CapLimit.
CanPush(v) ==
    vec[v].size = vec[v].capacity =>
        new_capacity(Cur, v) <= CapLimit /\ CanAlloc(heap)

EmplaceBack(v, components) ==
    /\ Alive(v)
    /\ CanPush(v)
    /\ Commit(emplace_back(Cur, v, components))
    /\ ref' = [ref EXCEPT ![v] = Append(ref[v], Emplaced(components))]
    /\ last' = Op("emplace_back",
                  IF vec[v].size = vec[v].capacity THEN "grow" ELSE "fit")

PushBack(v, value) ==
    /\ Alive(v)
    /\ CanPush(v)
    /\ Commit(push_back(Cur, v, value))
    /\ ref' = [ref EXCEPT ![v] = Append(ref[v], value)]
    /\ last' = Op("push_back",
                  IF vec[v].size = vec[v].capacity THEN "grow" ELSE "fit")

\* The four operations when they must allocate and the allocator throws; the exception
\* is caught nowhere in the header and reaches the caller.
ReserveFails(v, n) ==
    /\ Alive(v)
    /\ n > vec[v].capacity
    /\ Commit(reserve_bad_alloc(Cur, v, n))
    /\ ref' = ref
    /\ last' = Op("reserve", "bad_alloc")

ResizeFails(v, n, value) ==
    /\ Alive(v)
    /\ n > vec[v].capacity
    /\ Commit(resize_fill_bad_alloc(Cur, v, n, value))
    /\ ref' = ref
    /\ last' = Op("resize", "bad_alloc")

EmplaceBackFails(v, components) ==
    /\ Alive(v)
    /\ vec[v].size = vec[v].capacity
    /\ Commit(emplace_back_bad_alloc(Cur, v, components))
    /\ ref' = ref
    /\ last' = Op("emplace_back", "bad_alloc")

PushBackFails(v, value) ==
    /\ Alive(v)
    /\ vec[v].size = vec[v].capacity
    /\ Commit(push_back_bad_alloc(Cur, v, value))
    /\ ref' = ref
    /\ last' = Op("push_back", "bad_alloc")

\* emplace_back (push_back goes through it) where the constructor of field `thrower`
\* throws; the exception reaches the caller.
EmplaceBackCtorFails(v, components, thrower) ==
    /\ Alive(v)
    /\ CanPush(v)
    /\ Commit(emplace_back_ctor_throws(Cur, v, components, thrower))
    /\ ref' = ref
    /\ last' = [Op("emplace_back", "ctor_throws") EXCEPT !.arg = thrower]

\* pop_back on an empty container is outside its contract.
PopBack(v) ==
    /\ Alive(v)
    /\ vec[v].size > 0
    /\ Commit(pop_back(Cur, v))
    /\ ref' = [ref EXCEPT ![v] = SubSeq(ref[v], 1, Len(ref[v]) - 1)]
    /\ last' = Op("pop_back", "")

\* vector::at: check_at, then the proxy at begin() + i.
At(v, i) ==
    /\ Alive(v)
    /\ UNCHANGED <<vec, heap, ref, lim>>
    /\ last' = [Op("at", IF check_at(Cur, v, i) THEN "out_of_range" ELSE "returned")
                   EXCEPT !.arg = i]

\* vec[i] = value: ref_proxy::operator= on the proxy at a valid index i.
ProxyAssign(v, i, value) ==
    /\ Alive(v)
    /\ 0 <= i /\ i < vec[v].size
    /\ Commit(proxy_assign(Cur, v, i, value))
    /\ ref' = [ref EXCEPT ![v][i + 1] = value]
    /\ last' = Op("proxy_assign", "")

ShrinkToFit(v) ==
    /\ Alive(v)
    /\ Commit(shrink_to_fit(Cur, v))
    /\ ref' = ref
    /\ last' = Op("shrink_to_fit",
                  IF vec[v].size = vec[v].capacity THEN "noop" ELSE "reallocate")

\* A loop over the container from begin() to end(), and end() - begin().
Iterate(v) ==
    /\ Alive(v)
    /\ UNCHANGED <<vec, heap, ref, lim>>
    /\ last' = [op |-> "iterate",
                res |-> for_each(Cur, begin(Cur, v), end(Cur, v)),
                arg |-> it_minus(end(Cur, v), begin(Cur, v))]

\* The six comparisons and the distance of the iterators begin() + i and begin() + j.
IterCompare(v, i, j) ==
    /\ Alive(v)
    /\ i <= vec[v].size /\ j <= vec[v].size
    /\ UNCHANGED <<vec, heap, ref, lim>>
    /\ LET a == it_plus(begin(Cur, v), i)
           b == it_plus(begin(Cur, v), j)
       IN  last' = [op |-> "compare",
                    res |-> [i |-> i, j |-> j,
                             eq |-> it_eq(a, b), ne |-> it_ne(a, b),
                             lt |-> it_lt(a, b), gt |-> it_gt(a, b),
                             le |-> it_le(a, b), ge |-> it_ge(a, b),
                             minus |-> it_minus(a, b)],
                    arg |-> 0]

\* The first three statements of vector::allocate for nb elements: the shift tuple
\* (one offset per field, then nb_bytes) of the run's field list.
Layout(nb) ==
    /\ UNCHANGED <<vec, heap, ref, lim>>
    /\ last' = [op |-> "allocate", res |-> Shifts(lim.sizes, lim.aligns, nb), arg |-> nb]

\* vector_span::at on the view of field f: check_at, then ptr_[i].
SpanAt(v, f, i) ==
    /\ Alive(v)
    /\ UNCHANGED <<vec, heap, ref, lim>>
    /\ last' = [Op("span_at",
                   IF span_check_at(Cur, v, f, i) THEN "out_of_range" ELSE "returned")
                   EXCEPT !.arg = i]

\* T value = vec[i]; vec[i] = value;
ProxyRoundTrip(v, i) ==
    /\ Alive(v)
    /\ 0 <= i /\ i < vec[v].size
    /\ Commit(proxy_assign(Cur, v, i, proxy_value(Cur, v, i)))
    /\ ref' = [ref EXCEPT ![v][i + 1] = proxy_value(Cur, v, i)]
    /\ last' = [Op("proxy_round_trip", "") EXCEPT !.arg = i]

\* The records and argument lists the callers of this run pass.
UserRecords == lim.records
UserComponents == lim.components

\* Insertions and removals.
Grow ==
    \/ \E v \in Vecs : Clear(v)
    \/ \E v \in Vecs, components \in UserComponents : EmplaceBack(v, components)
    \/ \E v \in Vecs, value \in UserRecords : PushBack(v, value)
    \/ \E v \in Vecs : PopBack(v)

\* Size and capacity modifiers.
Sizing ==
    \/ \E v \in Vecs, n \in -1..CapLimit : Reserve(v, n)
    \/ \E v \in Vecs, n \in 0..CapLimit : Resize(v, n)

\* resize with a fill value, and checked access.
Checked ==
    \/ \E v \in Vecs, n \in 0..CapLimit, value \in UserRecords : ResizeValue(v, n, value)
    \/ \E v \in Vecs, i \in -1..(CapLimit + 1) : At(v, i)

\* Construction, destruction, copies and moves between the container objects, and
\* assignment through a proxy.  Object 1 lives throughout and is the source of every
\* copy and move; the other object is constructed, assigned to and destroyed (the
\* member functions are the same whichever object plays which part).
Transfer ==
    \/ \E v \in Vecs \ {1} : Construct(v)
    \/ \E v \in Vecs \ {1} : MoveConstruct(v, 1)
    \/ \E v \in Vecs \ {1} : CopyConstruct(v, 1)
    \/ \E v \in Vecs \ {1} : MoveAssign(v, 1)
    \/ \E v \in Vecs \ {1} : CopyAssign(v, 1)
    \/ \E v \in Vecs \ {1} : Destruct(v)
    \/ \E v \in Vecs, i \in 0..(CapLimit - 1), value \in UserRecords \cup {DefaultRecord} :
           ProxyAssign(v, i, value)

\* The caller of a copy assignment that threw calls nothing more on the object it
\* assigned to.
Usable(v) == vec[v].size <= vec[v].capacity

\* Two container objects where the allocation of a copy assignment may fail.
NextFail ==
    \/ \E v \in Vecs, value \in UserRecords : Usable(v) /\ PushBack(v, value)
    \/ \E v \in Vecs : Usable(v) /\ PopBack(v)
    \/ \E v \in Vecs, n \in 0..CapLimit : Usable(v) /\ Reserve(v, n)
    \/ \E v \in Vecs \ {1} : Construct(v)
    \/ \E v \in Vecs \ {1} : MoveConstruct(v, 1)
    \/ \E v \in Vecs \ {1} : CopyConstruct(v, 1)
    \/ \E v \in Vecs \ {1} : Usable(v) /\ MoveAssign(v, 1)
    \/ \E v \in Vecs \ {1} : Usable(v) /\ CopyAssign(v, 1)
    \/ \E v \in Vecs \ {1} : Usable(v) /\ CopyAssignFails(v, 1)
    \/ \E v \in Vecs \ {1} : Usable(v) /\ Destruct(v)

Next == Grow \/ Sizing \/ Checked

NextGrow == Grow

NextPair == Grow \/ Sizing \/ Transfer

\* shrink_to_fit, the field views, the proxies and the failing allocator.
View ==
    \/ \E v \in Vecs : ShrinkToFit(v)
    \/ \E v \in Vecs, i \in 0..(CapLimit - 1) : ProxyRoundTrip(v, i)
    \/ \E v \in Vecs, f \in Fields, i \in -1..(CapLimit + 1) : SpanAt(v, f, i)
    \/ \E v \in Vecs, n \in 1..(CapLimit + 1) : ReserveFails(v, n)
    \/ \E v \in Vecs, n \in 1..(CapLimit + 1), value \in UserRecords \cup {DefaultRecord} :
           ResizeFails(v, n, value)
    \/ \E v \in Vecs, components \in UserComponents : EmplaceBackFails(v, components)
    \/ \E v \in Vecs, value \in UserRecords : PushBackFails(v, value)
    \/ \E v \in Vecs, components \in UserComponents, thrower \in Fields :
           EmplaceBackCtorFails(v, components, thrower)

NextView == Grow \/ Sizing \/ View

\* Loops over the container and iterator comparisons.
Iter ==
    \/ \E v \in Vecs : Iterate(v)
    \/ \E v \in Vecs, i \in 0..CapLimit, j \in 0..CapLimit : IterCompare(v, i, j)

NextIter == Grow \/ Sizing \/ Iter

\* One container that is also copy-assigned to itself.
NextSelf == Grow \/ Sizing \/ \E v \in Vecs : SelfCopyAssign(v)

\* allocate is only ever called for one element or more.
NextLayout == \E nb \in 1..CapLimit : Layout(nb)

\* One container under a sequence of its own operations.
Spec == Init /\ [][Next]_vars

\* One container under insertions and removals, to a larger capacity.
SpecGrow == InitGrow /\ [][NextGrow]_vars

\* Two container objects, with construction, destruction, copy and move.
SpecPair == InitPair /\ [][NextPair]_vars

\* One container with shrink_to_fit, its views and proxies, and failing allocations.
SpecView == InitView /\ [][NextView]_vars

\* Two container objects, copies and moves, and copy assignments whose allocation fails.
SpecFail == InitFail /\ [][NextFail]_vars

\* One container, its iterators and the loops over it.
SpecIter == InitIter /\ [][NextIter]_vars

SpecSelf == InitSelf /\ [][NextSelf]_vars

\* The layout computation over field lists and capacities.
SpecLayout == InitLayout /\ [][NextLayout]_vars

\* ------------------------------------------------------------- the claims
\* What a caller observes of container v: size, capacity and the records in order.
Contents(M, v) ==
    [k \in 1..M.vec[v].size |->
        [f \in Fields |-> Load(M.heap, M.vec[v].base[f], f, k - 1)]]

\* C1: after every operation of a sequence of push_back, emplace_back, pop_back,
\* reserve, resize and clear on one container, size() is the number of logical
\* elements the sequence implies and 0 <= size() <= capacity().
C1_SizeWithinCapacity ==
    \A v \in Vecs :
        Alive(v) =>
            /\ vec[v].size = Len(ref[v])
            /\ 0 <= vec[v].size
            /\ vec[v].size <= vec[v].capacity

\* C1 witness: a removal left the container non-empty and below its capacity.
C1_Witness ==
    /\ last.op \in {"pop_back", "resize"}
    /\ vec[1].size >= 1
    /\ vec[1].size < vec[1].capacity

\* C2: run beside a reference sequence of whole records, the container has the same
\* empty() and size() as the reference, and every field view yields, in index order,
\* that field of the reference's elements.
C2_MatchesReference ==
    \A v \in Vecs :
        Alive(v) =>
            /\ (vec[v].size = 0) = (ref[v] = <<>>)
            /\ vec[v].size = Len(ref[v])
            /\ \A f \in Fields :
                   SpanValues(Cur, v, f) = [k \in 1..Len(ref[v]) |-> ref[v][k][f]]

\* C2 witness: a container made by copy or move construction holds two records that
\* differ, in the reference's order.
C2_Witness ==
    /\ last.op \in {"copy_construct", "move_construct"}
    /\ \E v \in Vecs :
           /\ Alive(v)
           /\ Len(ref[v]) = 2
           /\ ref[v][1] # ref[v][2]
           /\ Contents(Cur, v) = ref[v]

\* The program state after the step.
CurNext == [vec |-> vec', heap |-> heap']

LiveBufs == {b \in Bufs : heap[b].st = "live"}
Owners == {v \in Vecs : Alive(v) /\ vec[v].capacity > 0}

\* C3: the buffers allocated and not yet deallocated are as many as the existing
\* containers with capacity > 0 (so a reserve that grew has deallocated the
\* previous buffer by the time it returns).
C3_BuffersMatchOwners == Cardinality(LiveBufs) = Cardinality(Owners)

\* C4: at(i) returns for every 0 <= i < size() and fails with out_of_range for
\* i == size(), every i > size() and every negative i.
C4_AtChecksBothBounds ==
    last.op = "at" =>
        ((last.res = "returned") <=> (0 <= last.arg /\ last.arg < vec[1].size))

Moves(v, rhs) == MoveConstruct(v, rhs) \/ MoveAssign(v, rhs)

\* C5: after move construction or move assignment the source has size 0 and
\* capacity 0 and points to no buffer, exactly like a freshly constructed container,
\* and the destination has the source's original size, capacity and records.
C5_MoveEmptiesSource ==
    [][\A v \in Vecs, rhs \in Vecs :
          (last'.op \in {"move_construct", "move_assign"} /\ Moves(v, rhs)) =>
              /\ vec'[rhs].size = 0
              /\ vec'[rhs].capacity = 0
              /\ \A f \in Fields : vec'[rhs].base[f] = NullSpan
              /\ vec'[rhs] = EmptyVector
              /\ vec'[v].size = vec[rhs].size
              /\ vec'[v].capacity = vec[rhs].capacity
              /\ Contents(CurNext, v) = Contents(Cur, rhs)]_vars

\* C5 witness: a move assignment handed two records and a larger capacity over.
C5_Witness ==
    /\ last.op = "move_assign"
    /\ vec[1] = EmptyVector
    /\ \E v \in Vecs \ {1} :
           /\ vec[v].size = 2
           /\ vec[v].capacity = 2
           /\ Contents(Cur, v) = ref[v]

Copies(v, rhs) == CopyConstruct(v, rhs) \/ CopyAssign(v, rhs)

\* The operations that mutate container v alone.
Mutates(v) ==
    \/ /\ last'.op = "proxy_assign"
       /\ \E i \in 0..(CapLimit - 1), value \in Records : ProxyAssign(v, i, value)
    \/ /\ last'.op = "push_back"
       /\ \E value \in Records : PushBack(v, value)
    \/ /\ last'.op = "emplace_back"
       /\ \E components \in Prefixes(Records) : EmplaceBack(v, components)
    \/ PopBack(v)
    \/ /\ last'.op = "resize"
       /\ \E n \in 0..CapLimit : Resize(v, n)
    \/ Clear(v)
    \/ Destruct(v)

\* What a caller observes of container v.
Observed(M, v) ==
    [size |-> M.vec[v].size, capacity |-> M.vec[v].capacity, values |-> Contents(M, v)]

\* C6: a copy (constructed or assigned from a distinct source) has the source's size
\* and records, in a buffer of its own when both own one; a mutation of one
\* container (element write, push_back, emplace_back, pop_back, resize, clear,
\* destruction) leaves the size, capacity and records of every other container as
\* they were: no step that changes what is observed of w is a mutation of v.
C6_CopyIsIndependent ==
    [][\A v \in Vecs : \A w \in Vecs \ {v} :
          /\ (last'.op \in {"copy_construct", "copy_assign"} /\ Copies(v, w)) =>
                 /\ vec'[v].size = vec'[w].size
                 /\ Contents(CurNext, v) = Contents(CurNext, w)
                 /\ Observed(CurNext, w) = Observed(Cur, w)
                 /\ (vec'[v].capacity > 0 /\ vec'[w].capacity > 0) =>
                        \A f \in Fields : vec'[v].base[f].buf # vec'[w].base[f].buf
          /\ (Alive(w) /\ Observed(CurNext, w) # Observed(Cur, w)) => ~Mutates(v)]_vars

\* C6 witness: a copy assignment gave the destination two records in a buffer of
\* its own.
C6_Witness ==
    /\ last.op = "copy_assign"
    /\ \E v \in Vecs \ {1} :
           /\ vec[v].size = 2
           /\ Contents(Cur, v) = Contents(Cur, 1)
           /\ vec[v].base[1].buf # vec[1].base[1].buf

Max(a, b) == IF a >= b THEN a ELSE b

\* The smallest power of two >= k, for k >= 1.
RECURSIVE Pow2From(_, _)
Pow2From(p, k) == IF p >= k THEN p ELSE Pow2From(2 * p, k)
Pow2Ceil(k) == Pow2From(1, k)

\* v is empty as constructed, or its capacity is the smallest power of two >= size.
Doubled(M, v) ==
    \/ M.vec[v].size = 0 /\ M.vec[v].capacity = 0
    \/ M.vec[v].size >= 1 /\ M.vec[v].capacity = Pow2Ceil(M.vec[v].size)

Inserts(v) ==
    \/ \E components \in Prefixes(Records) : EmplaceBack(v, components)
    \/ \E value \in Records : PushBack(v, value)

\* C7: push_back / emplace_back with size == capacity leaves capacity
\* max(1, 2 * old capacity), with size < capacity leaves it unchanged; so from an
\* empty container the capacity after k successive insertions is the smallest power
\* of two >= k (each insertion keeps that relation).
C7_GrowthDoubles ==
    [][\A v \in Vecs :
          (last'.op \in {"emplace_back", "push_back"} /\ Inserts(v)) =>
              /\ vec'[v].capacity =
                     (IF vec[v].size = vec[v].capacity
                      THEN Max(1, 2 * vec[v].capacity)
                      ELSE vec[v].capacity)
              /\ Doubled(Cur, v) => Doubled(CurNext, v)]_vars

\* C7 witness: the third insertion into an empty container doubled capacity 2 to 4.
C7_Witness ==
    /\ last.op = "emplace_back"
    /\ last.res = "grow"
    /\ vec[1].size = 3
    /\ vec[1].capacity = 4

\* C8: reserve(n) with n <= capacity changes nothing; with n > capacity it sets
\* capacity to n and leaves size and every live element, at its index, as it was.
C8_ReserveKeepsElements ==
    [][\A v \in Vecs, n \in -1..CapLimit :
          (last'.op = "reserve" /\ Reserve(v, n)) =>
              IF n <= vec[v].capacity
              THEN vec' = vec /\ heap' = heap
              ELSE /\ vec'[v].capacity = n
                   /\ vec'[v].size = vec[v].size
                   /\ Contents(CurNext, v) = Contents(Cur, v)]_vars

\* C8 witness: a reserve that grew migrated two records that differ.
C8_Witness ==
    /\ last.op = "reserve"
    /\ last.res = "grow"
    /\ vec[1].size = 2
    /\ Contents(Cur, 1)[1] # Contents(Cur, 1)[2]
    /\ Contents(Cur, 1) = ref[1]

\* The elements [old size, n) a growing resize constructs, all equal to `value`.
Grown(M, N, v, n, value) ==
    /\ N.vec[v].size = n
    /\ N.vec[v].capacity >= n
    /\ \A k \in 1..n :
           Contents(N, v)[k] = (IF k <= M.vec[v].size THEN Contents(M, v)[k] ELSE value)

\* C9: resize(n) and resize(n, value) with n > size set size to n and capacity to at
\* least n, leave elements [0, old size) unchanged and make every element of
\* [old size, n) value-initialised per field, or a field-by-field copy of value.
C9_ResizeGrows ==
    [][\A v \in Vecs, n \in 0..CapLimit :
          n > vec[v].size =>
              /\ (last'.op = "resize" /\ Resize(v, n)) =>
                     Grown(Cur, CurNext, v, n, DefaultRecord)
              /\ \A value \in Records :
                     (last'.op = "resize_value" /\ ResizeValue(v, n, value)) =>
                         Grown(Cur, CurNext, v, n, value)]_vars

\* C9 witness: resize(n, value) appended copies of a value behind an element that
\* differs from it.
C9_Witness ==
    /\ last.op = "resize_value"
    /\ last.res = "grow"
    /\ vec[1].size = 3
    /\ Contents(Cur, 1)[1] # Contents(Cur, 1)[3]
    /\ Contents(Cur, 1)[3] # DefaultRecord

\* C10: resize(n) with 0 <= n <= size sets size to n and leaves capacity, the buffer
\* and the elements [0, n) unchanged.
C10_ResizeShrinks ==
    [][\A v \in Vecs, n \in 0..CapLimit :
          (last'.op = "resize" /\ n <= vec[v].size /\ Resize(v, n)) =>
              /\ vec'[v].size = n
              /\ vec'[v].capacity = vec[v].capacity
              /\ vec'[v].base = vec[v].base
              /\ vec'[v].nb_bytes = vec[v].nb_bytes
              /\ \A b \in Bufs : heap'[b].st = heap[b].st /\ heap'[b].bytes = heap[b].bytes
              /\ \A k \in 1..n : Contents(CurNext, v)[k] = Contents(Cur, v)[k]]_vars

\* C10 witness: a resize cut a container down to two records that differ, below its
\* capacity.
C10_Witness ==
    /\ last.op = "resize"
    /\ last.res = "shrink"
    /\ vec[1].size = 2
    /\ vec[1].capacity = 3
    /\ Contents(Cur, 1)[1] # Contents(Cur, 1)[2]
    /\ Load(heap, vec[1].base[1], 1, 2) = Raw

\* C11: shrink_to_fit() called with size < capacity leaves capacity equal to size
\* and the live elements unchanged in order; called with size == capacity it
\* changes nothing.
C11_ShrinkToFitFits ==
    last.op = "shrink_to_fit" =>
        /\ vec[1].capacity = vec[1].size
        /\ Contents(Cur, 1) = ref[1]

\* C12: pop_back() on a non-empty container decreases size by exactly one, destroys
\* every field of the element at the old last index, and leaves capacity, the
\* buffer and the elements [0, size - 1) unchanged.
C12_PopBackRemovesLast ==
    [][\A v \in Vecs :
          (last'.op = "pop_back" /\ PopBack(v)) =>
              /\ vec'[v].size = vec[v].size - 1
              /\ \A f \in Fields :
                     /\ Load(heap, vec[v].base[f], f, vec[v].size - 1) # Raw
                     /\ Load(heap', vec[v].base[f], f, vec[v].size - 1) = Raw
              /\ vec'[v].capacity = vec[v].capacity
              /\ vec'[v].base = vec[v].base
              /\ vec'[v].nb_bytes = vec[v].nb_bytes
              /\ \A b \in Bufs : heap'[b].st = heap[b].st /\ heap'[b].bytes = heap[b].bytes
              /\ \A k \in 1..(vec[v].size - 1) :
                     Contents(CurNext, v)[k] = Contents(Cur, v)[k]]_vars

\* C12 witness: a pop_back left two records that differ in front of the destroyed
\* slot.
C12_Witness ==
    /\ last.op = "pop_back"
    /\ vec[1].size = 2
    /\ vec[1].capacity = 3
    /\ Contents(Cur, 1)[1] # Contents(Cur, 1)[2]
    /\ Contents(Cur, 1) = ref[1]
    /\ \A f \in Fields : Load(heap, vec[1].base[f], f, 2) = Raw

\* C13: clear() destroys every live element of every field, sets size to 0 and
\* leaves capacity and the buffer unchanged; an insertion into a container with
\* size < capacity (as after clear, up to the old capacity) allocates nothing and
\* keeps the buffer.
C13_ClearKeepsBuffer ==
    [][\A v \in Vecs :
          /\ (last'.op = "clear" /\ Clear(v)) =>
                 /\ vec'[v].size = 0
                 /\ vec'[v].capacity = vec[v].capacity
                 /\ vec'[v].base = vec[v].base
                 /\ vec'[v].nb_bytes = vec[v].nb_bytes
                 /\ \A b \in Bufs :
                        heap'[b].st = heap[b].st /\ heap'[b].bytes = heap[b].bytes
                 /\ \A f \in Fields : \A i \in 0..(vec[v].capacity - 1) :
                        Load(heap', vec[v].base[f], f, i) = Raw
          /\ (last'.op \in {"emplace_back", "push_back"} /\ Inserts(v)
                 /\ vec[v].size < vec[v].capacity) =>
                 /\ vec'[v].capacity = vec[v].capacity
                 /\ vec'[v].base = vec[v].base
                 /\ \A b \in Bufs :
                        heap'[b].st = heap[b].st /\ heap'[b].bytes = heap[b].bytes]_vars

\* C13 witness: a clear destroyed the elements of a container of capacity 3 and
\* left it its buffer.
C13_Witness ==
    /\ last.op = "clear"
    /\ last.res = "destroyed"
    /\ vec[1].size = 0
    /\ vec[1].capacity = 3
    /\ heap[vec[1].base[1].buf].st = "live"

\* x rounded up to the next multiple of a.
RoundUp(x, a) == ((x + a - 1) \div a) * a

\* The segment of field i in a layout for N elements ends before this offset.
SegmentEnd(shift, sizes, N, i) == shift[i] + N * sizes[i]

\* C14: for every capacity N and field list, field 0 has offset 0, field i > 0 has
\* the offset (offset of field i-1 + N * size(field i-1)) rounded up to the next
\* multiple of align(field i), and the total byte length is offset(last field) +
\* N * size(last field).
C14_LayoutOffsets ==
    last.op = "allocate" =>
        LET shift == last.res
            n == Len(lim.sizes)
        IN  /\ shift[1] = 0
            /\ \A i \in 2..n :
                   shift[i] = RoundUp(SegmentEnd(shift, lim.sizes, last.arg, i - 1),
                                      lim.aligns[i])
            /\ shift[n + 1] = SegmentEnd(shift, lim.sizes, last.arg, n)

\* C15: for every capacity N and field list, the byte ranges [offset(i), offset(i) +
\* N * size(field i)) of distinct fields are pairwise disjoint, in declaration
\* order, and inside [0, total byte length) of the one buffer allocated.
C15_SegmentsDisjoint ==
    last.op = "allocate" =>
        LET shift == last.res
            n == Len(lim.sizes)
        IN  /\ \A i \in 1..n : \A j \in (i + 1)..n :
                   SegmentEnd(shift, lim.sizes, last.arg, i) <= shift[j]
            /\ \A i \in 1..n :
                   /\ 0 <= shift[i]
                   /\ SegmentEnd(shift, lim.sizes, last.arg, i) <= shift[n + 1]

\* C15 witness: a layout of three fields for three elements with padding between
\* the first two segments.
C15_Witness ==
    /\ last.op = "allocate"
    /\ last.arg = 3
    /\ Len(lim.sizes) = 3
    /\ last.res[2] > SegmentEnd(last.res, lim.sizes, last.arg, 1)
    /\ last.res[4] > last.res[3]

\* C16: for a record type with copyable fields and a valid index i, materializing a
\* record from the proxy at index i and assigning it back through the proxy at
\* index i leaves every field value at index i and at every other index as it was.
C16_ProxyRoundTrip ==
    [][\A v \in Vecs, i \in 0..(CapLimit - 1) :
          (last'.op = "proxy_round_trip" /\ ProxyRoundTrip(v, i)) =>
              /\ Contents(CurNext, v) = Contents(Cur, v)
              /\ vec' = vec
              /\ heap' = heap]_vars

\* C16 witness: a round trip through the proxy of the second of two records that
\* differ, whose fields differ too.
C16_Witness ==
    /\ last.op = "proxy_round_trip"
    /\ last.arg = 1
    /\ vec[1].size = 2
    /\ Contents(Cur, 1)[2] = FullRecord
    /\ Contents(Cur, 1)[1] # Contents(Cur, 1)[2]
    /\ Contents(Cur, 1) = ref[1]

\* C17: on a field view, at(i) succeeds for every 0 <= i < size and fails with an
\* out-of-range error for every i outside [0, size), negative i included, size
\* being the owning container's current size.
C17_SpanAtChecksBothBounds ==
    last.op = "span_at" =>
        ((last.res = "returned") <=> (0 <= last.arg /\ last.arg < vec[1].size))

\* C18: at every moment, across copy and move constructions and assignments, no two
\* containers with capacity > 0 refer to the same buffer (a move included: it leaves
\* one owner).
C18_OneOwnerPerBuffer ==
    \A v, w \in Vecs :
        (v # w /\ Alive(v) /\ Alive(w) /\ vec[v].capacity > 0 /\ vec[w].capacity > 0)
            => vec[v].base[1].buf # vec[w].base[1].buf

\* C19: when the allocator fails during reserve(n) or resize(n) with n > capacity, or
\* during push_back / emplace_back with size = capacity, the failure reaches the
\* caller and the container's size, capacity, buffer and element values are those
\* of before the call.
C19_BadAllocChangesNothing ==
    [][last'.res = "bad_alloc" =>
          /\ last'.op \in {"reserve", "resize", "emplace_back", "push_back"}
          /\ vec' = vec
          /\ heap' = heap
          /\ Contents(CurNext, 1) = ref[1]]_vars

C19_Witness ==
    /\ last.op = "resize" /\ last.res = "bad_alloc"
    /\ vec[1].size > 0 /\ vec[1].size < vec[1].capacity

CurrentBufs == {vec[v].base[1].buf : v \in Owners}

\* C21: every field value constructed in place is destroyed exactly once: after a
\* growth the values left in the old buffer have been destroyed, and once a
\* container is destroyed none of the values it constructed remains; so no buffer
\* other than the current buffer of a living container holds a constructed value.
C21_NoValueOutlivesItsBuffer ==
    \A b \in Bufs \ CurrentBufs :
        \A f \in DOMAIN heap[b].slots :
            \A i \in DOMAIN heap[b].slots[f] : heap[b].slots[f][i] = Raw

C23_OffsetsAligned ==
    last.op = "allocate" =>
        \A i \in 1..Len(lim.sizes) : last.res[i] % lim.aligns[i] = 0

\* C24: assigning a record (by copy or by move) through the mutable proxy at a valid
\* index i sets every field at index i to the same field of the record, and changes
\* no field at another index, nor size or capacity.
C24_ProxyAssignSetsOneElement ==
    [][\A v \in Vecs, i \in 0..(CapLimit - 1), value \in Records :
          (/\ last'.op = "proxy_assign"
           /\ i < Len(ref[v])
           /\ ref' = [ref EXCEPT ![v][i + 1] = value]
           /\ ProxyAssign(v, i, value)) =>
              /\ \A f \in Fields : Load(heap', vec'[v].base[f], f, i) = value[f]
              /\ vec' = vec
              /\ \A b \in Bufs :
                     /\ heap'[b].st = heap[b].st
                     /\ \A f \in DOMAIN heap[b].slots :
                            \A k \in DOMAIN heap[b].slots[f] :
                                (b # vec[v].base[f].buf \/ k # i) =>
                                    heap'[b].slots[f][k] = heap[b].slots[f][k]]_vars

\* C24 witness: an assignment through a proxy left a container of two elements with
\* two different records.
C24_Witness ==
    /\ last.op = "proxy_assign"
    /\ \E v \in Vecs :
           /\ Alive(v)
           /\ vec[v].size = 2
           /\ Contents(Cur, v)[1] = FullRecord
           /\ Contents(Cur, v)[2] = DefaultRecord

\* C25: emplace_back with k arguments, 0 <= k <= number of fields, appends one element
\* whose first k fields, in declaration order, are constructed from the k arguments
\* in order and whose other fields are default-constructed; size grows by exactly
\* one and the earlier elements are unchanged.
C25_EmplaceBackAppends ==
    [][\A v \in Vecs, components \in Prefixes(Records) :
          (last'.op = "emplace_back" /\ EmplaceBack(v, components)) =>
              /\ vec'[v].size = vec[v].size + 1
              /\ \A k \in 1..vec[v].size : Contents(CurNext, v)[k] = Contents(Cur, v)[k]
              /\ \A f \in Fields :
                     Contents(CurNext, v)[vec'[v].size][f] =
                         (IF f <= Len(components) THEN components[f]
                          ELSE DefaultRecord[f])]_vars

\* C25 witness: emplace_back with one argument appended, behind a whole record, an
\* element with its first field from the argument and its second default-constructed.
C25_Witness ==
    /\ last.op = "emplace_back"
    /\ vec[1].size = 2
    /\ Contents(Cur, 1)[1] = FullRecord
    /\ Contents(Cur, 1)[2][1] = FullRecord[1]
    /\ Contents(Cur, 1)[2][2] = DefaultRecord[2]

\* C26: after any sequence of container operations (growth, copy and move included),
\* the size every field view of a container reports is that container's current
\* size(): the view reads it from its owner and caches nothing.
C26_ViewSizeIsOwnerSize ==
    \A v \in Vecs :
        Alive(v) =>
            \A f \in Fields :
                span_size(Cur, v, f) = vec[v].size /\ span_size(Cur, v, f) = Len(ref[v])

\* C26 witness: after a move construction the views of the new container report the
\* two elements it took and the views of the source report none.
C26_Witness ==
    /\ last.op = "move_construct"
    /\ \A f \in Fields : span_size(Cur, 2, f) = 2 /\ span_size(Cur, 1, f) = 0

\* C27: iterating a container from begin() to end() visits exactly the indices 0, 1,
\* ..., size() - 1, once each and in increasing order; each dereference yields the
\* fields at the iterator's index; end() - begin() = size(); and equality and
\* ordering of two iterators of the same container are decided by their indices.
C27_IterationVisitsEachIndex ==
    /\ last.op = "iterate" =>
           /\ Len(last.res) = vec[1].size
           /\ \A k \in 1..Len(last.res) :
                  /\ last.res[k].index = k - 1
                  /\ last.res[k].value = ref[1][k]
           /\ last.arg = vec[1].size
    /\ last.op = "compare" =>
           LET r == last.res
           IN  /\ r.eq <=> (r.i = r.j)
               /\ r.ne <=> (r.i # r.j)
               /\ r.lt <=> (r.i < r.j)
               /\ r.gt <=> (r.i > r.j)
               /\ r.le <=> (r.i <= r.j)
               /\ r.ge <=> (r.i >= r.j)
               /\ r.minus = r.i - r.j

\* C27 witness: a loop over a container of two different records, below its capacity.
C27_Witness ==
    /\ last.op = "iterate"
    /\ Len(last.res) = 2
    /\ vec[1].capacity = 3
    /\ last.res[1].value # last.res[2].value

\* C28: a copy-constructed container has the capacity of the source's size (not of
\* the source's capacity); a copy assignment into a destination whose capacity is >=
\* the source's size keeps the destination's capacity and buffer and allocates and
\* deallocates nothing; otherwise it leaves the destination with the capacity of the
\* source's size.
C28_CopyCapacity ==
    [][\A v \in Vecs : \A rhs \in Vecs \ {v} :
          /\ (last'.op = "copy_construct" /\ CopyConstruct(v, rhs)) =>
                 vec'[v].capacity = vec[rhs].size
          /\ (last'.op = "copy_assign" /\ CopyAssign(v, rhs)) =>
                 IF vec[v].capacity >= vec[rhs].size
                 THEN /\ vec'[v].capacity = vec[v].capacity
                      /\ vec'[v].base = vec[v].base
                      /\ \A b \in Bufs :
                             heap'[b].st = heap[b].st /\ heap'[b].bytes = heap[b].bytes
                 ELSE vec'[v].capacity = vec[rhs].size]_vars

\* C28 witness: a copy assignment of one record into a destination of capacity two
\* reused the destination's buffer.
C28_Witness ==
    /\ last.op = "copy_assign" /\ last.res = "reuse"
    /\ \E v \in Vecs \ {1} :
           /\ vec[v].size = 1 /\ vec[v].capacity = 2
           /\ Contents(Cur, v) = Contents(Cur, 1)

\* C29: when the allocator fails during a copy assignment into a destination whose
\* capacity is smaller than the source's size, the destination is left valid: size
\* <= capacity, and it refers to no buffer that has been deallocated (so that its
\* destruction touches no freed memory and frees no buffer twice).
C29_FailedCopyAssignLeavesValid ==
    (last.op = "copy_assign" /\ last.res = "bad_alloc") =>
        \A v \in Vecs \ {1} :
            Alive(v) =>
                /\ vec[v].size <= vec[v].capacity
                /\ vec[v].capacity > 0 => heap[vec[v].base[1].buf].st = "live"

\* The steps in which container v calls allocator_traits::deallocate: its destructor,
\* a move assignment to it, a copy assignment to it that needs more capacity; each
\* passes span 0's pointer and nb_bytes_ as they are before the step.
Deallocates(v) ==
    /\ vec[v].capacity > 0
    /\ \/ last'.op = "destruct" /\ Destruct(v)
       \/ last'.op = "move_assign" /\ \E rhs \in Vecs : MoveAssign(v, rhs)
       \/ /\ last'.op = "copy_assign" /\ last'.res = "realloc"
          /\ \E rhs \in Vecs : CopyAssign(v, rhs)

\* C30: while allocations succeed, every deallocate call passes a buffer start that
\* an earlier allocate call returned and that has not been deallocated since, with
\* the byte count requested in that allocate call; no buffer is deallocated twice.
C30_DeallocateMatchesAllocate ==
    [][\A v \in Vecs :
          Deallocates(v) =>
              LET ptr == vec[v].base[1]
              IN  /\ ptr.buf \in Bufs
                  /\ ptr.off = 0
                  /\ heap[ptr.buf].st = "live"
                  /\ heap[ptr.buf].bytes = vec[v].nb_bytes]_vars

\* C30 witness: a destructor gave its buffer back while the other container keeps
\* its own.
C30_Witness ==
    /\ last.op = "destruct" /\ last.res = "deallocate"
    /\ vec[1].capacity > 0
    /\ heap[vec[1].base[1].buf].st = "live"
    /\ \E b \in Bufs : heap[b].st = "unused"

\* C31: the capacity of a container never decreases across reserve, resize,
\* push_back, emplace_back, pop_back, clear and copy assignment; it becomes smaller
\* only when the container is moved from or is the destination of a move assignment.
C31_CapacityNeverShrinks ==
    [][\A v \in Vecs :
          (Alive(v) /\ vec'[v].alive) =>
              /\ last'.op \in {"reserve", "resize", "push_back", "emplace_back",
                               "pop_back", "clear", "copy_assign"} =>
                     vec'[v].capacity >= vec[v].capacity
              /\ vec'[v].capacity < vec[v].capacity =>
                     /\ last'.op \in {"move_construct", "move_assign"}
                     /\ \E w \in Vecs \ {v} : Moves(w, v) \/ MoveAssign(v, w)]_vars

\* C31 witness: a copy assignment from an empty source left the destination its
\* capacity of two.
C31_Witness ==
    /\ last.op = "copy_assign"
    /\ vec[1].size = 0
    /\ \E v \in Vecs \ {1} : vec[v].size = 0 /\ vec[v].capacity = 2

\* C32: copy-assigning a non-empty container to itself leaves its size, capacity and
\* every field value unchanged, and never copy-constructs from an element that has
\* already been destroyed.
C32_SelfCopyAssignIsIdentity ==
    [][\A v \in Vecs :
          (/\ last'.op = "copy_assign" /\ last'.res = "self"
           /\ vec[v].size > 0
           /\ SelfCopyAssign(v)) =>
              /\ vec'[v].size = vec[v].size
              /\ vec'[v].capacity = vec[v].capacity
              /\ Contents(CurNext, v) = Contents(Cur, v)
              /\ last'.arg = 0]_vars

====
